---- MODULE Spec2Model ----
(***************************************************************************)
(* A state-machine model of the CHIP-8 emulator of src/src/main.rs: the    *)
(* Chip8 struct, its opcode handlers, fetch/dispatch/step, and the host    *)
(* loop of main() that drives step() once per iteration.                   *)
(*                                                                         *)
(* The whole Chip8 struct is one record, held in the variable chip8; every *)
(* `fn op_...(&mut self, ...)` is an operator from a Chip8 record to the   *)
(* Chip8 record it leaves behind.  A Rust panic (explicit panic!, an array *)
(* index out of bounds, an arithmetic overflow in a build that checks it)  *)
(* aborts the process: it is recorded in the extra field `panicked`, and   *)
(* no action is enabled afterwards.                                        *)
(***************************************************************************)
EXTENDS Integers, Sequences, FiniteSets, TLC

VARIABLES
    chip8,            \* the Chip8 struct (main.rs 49-63) plus `panicked`
    overflow_checks,  \* build profile: TRUE = debug (overflow panics), FALSE = release (wraps)
    phase,            \* position of main(): "load", "keys", "step", "present", "clear"
    prev,             \* history: the machine as it was before the latest step()
    prev2,            \* history: the machine as it was before the step() before that
    opcode,           \* history: the word fetched by the latest step() (-1: none / fetch failed)
    opcode2,          \* history: the word fetched by the step() before that
    steps,            \* history: number of step() calls made
    ticks,            \* history: number of times step() entered its timer branch
    elapsed_ms,       \* history: wall-clock milliseconds spent in the host loop
    call_sites,       \* history: addresses of the 2nnn words whose calls have not returned
    matched,          \* history: address of the 2nnn matched by the latest 00EE (-1: none)
    rom_file,         \* history: the bytes of the ROM file main() was started on
    stored            \* history: x, I and the registers before the latest Fx55 (x = -1: none)

vars == <<chip8, overflow_checks, phase, prev, prev2, opcode, opcode2, steps, ticks,
          elapsed_ms, call_sites, matched, rom_file, stored>>

-----------------------------------------------------------------------------
(* Program constants *)

PIXEL_WIDTH  == 64
PIXEL_HEIGHT == 32
STACK_SIZE   == 16
MEMORY_SIZE  == 4096
ROM_BASE     == 512
PC_LIMIT     == 4094
TIMER_PERIOD == 16
UPDATE_RATE_MS == 1

GFX_SIZE == PIXEL_WIDTH * PIXEL_HEIGHT

CHIP8_FONTSET ==
    << \hF0, \h90, \h90, \h90, \hF0,
       \h20, \h60, \h20, \h20, \h70,
       \hF0, \h10, \hF0, \h80, \hF0,
       \hF0, \h10, \hF0, \h10, \hF0,
       \h90, \h90, \hF0, \h10, \h10,
       \hF0, \h80, \hF0, \h10, \hF0,
       \hF0, \h80, \hF0, \h90, \hF0,
       \hF0, \h10, \h20, \h40, \h40,
       \hF0, \h90, \hF0, \h90, \hF0,
       \hF0, \h90, \hF0, \h10, \hF0,
       \hF0, \h90, \hF0, \h90, \h90,
       \hE0, \h90, \hE0, \h90, \hE0,
       \hF0, \h80, \h80, \h80, \hF0,
       \hE0, \h90, \h90, \h90, \hE0,
       \hF0, \h80, \hF0, \h80, \hF0,
       \hF0, \h80, \hF0, \h80, \h80 >>

-----------------------------------------------------------------------------
(* Bounds of the model *)

MaxSteps   == 36   \* step() calls per run
MaxFrameMs == 2    \* longest host-loop iteration, in ms (the shortest is UPDATE_RATE_MS)
MaxLagMs   == 4    \* most time, in ms, a run may lose to iterations longer than the shortest

-----------------------------------------------------------------------------
(* Fixed-width arithmetic, as Rust's u8/u16/u32 operators compute it *)

Pow2(n) == 2 ^ n

Bit(v, i) == (v \div Pow2(i)) % 2

RECURSIVE BitAndW(_, _, _)
BitAndW(a, b, w) ==
    IF w = 0 THEN 0
    ELSE (a % 2) * (b % 2) + 2 * BitAndW(a \div 2, b \div 2, w - 1)

RECURSIVE BitOrW(_, _, _)
BitOrW(a, b, w) ==
    IF w = 0 THEN 0
    ELSE (IF (a % 2) + (b % 2) > 0 THEN 1 ELSE 0) + 2 * BitOrW(a \div 2, b \div 2, w - 1)

RECURSIVE BitXorW(_, _, _)
BitXorW(a, b, w) ==
    IF w = 0 THEN 0
    ELSE ((a + b) % 2) + 2 * BitXorW(a \div 2, b \div 2, w - 1)

BitOr(a, b)  == BitOrW(a, b, 32)

wrapping_add(a, b) == (a + b) % 256
wrapping_sub(a, b) == (a - b + 256) % 256

Panic(s, msg) == [s EXCEPT !.panicked = msg]

Running(s) == s.panicked = "none"

-----------------------------------------------------------------------------
(* Chip8::new *)

new ==
    [ memory          |-> [a \in 0..(MEMORY_SIZE - 1) |->
                              IF a < 80 THEN CHIP8_FONTSET[a + 1] ELSE 0],
      registers       |-> [r \in 0..15 |-> 0],
      pc              |-> ROM_BASE,
      old_pc          |-> ROM_BASE,
      index_register  |-> 0,
      delay_timer     |-> 0,
      sound_timer     |-> 0,
      gfx             |-> [o \in 0..(GFX_SIZE - 1) |-> 0],
      draw_flag       |-> FALSE,
      keys            |-> 0,
      sp              |-> 0,
      stack           |-> [i \in 0..(STACK_SIZE - 1) |-> 0],
      sound_iterator  |-> 0,
      panicked        |-> "none" ]

(* Chip8::load_rom: File::read fills memory[0x200..] with at most as many   *)
(* bytes as the slice holds; bytes of the file beyond that are not read.    *)
load_rom(s, rom) ==
    [s EXCEPT !.memory = [a \in 0..(MEMORY_SIZE - 1) |->
        IF a >= ROM_BASE /\ a - ROM_BASE < Len(rom)
        THEN rom[a - ROM_BASE + 1] ELSE s.memory[a]]]

(* Chip8::fetch_opcode: the record holds the machine after the fetch and    *)
(* the word fetched.                                                        *)
fetch_opcode(s) ==
    IF s.pc > MEMORY_SIZE - 1 \/ s.pc + 1 > MEMORY_SIZE - 1
    THEN [chip8 |-> Panic(s, "index out of bounds"), opcode |-> -1]
    ELSE LET first_byte  == s.memory[s.pc]
             second_byte == s.memory[s.pc + 1]
             word        == BitOr(first_byte * 256, second_byte)
             t           == [s EXCEPT !.pc = @ + 2]
         IN  IF t.pc > PC_LIMIT
             THEN [chip8 |-> Panic(t, "Program counter is out of memory range"),
                   opcode |-> -1]
             ELSE [chip8 |-> t, opcode |-> word]

-----------------------------------------------------------------------------
(* Opcode handlers.  A panicked record keeps the fields the handler had     *)
(* when it panicked; the process is gone and nothing reads them.            *)

\* faulty variant: the display is cleared without asking for a redraw
op_00E0_NoRedraw(s) == [s EXCEPT !.gfx = [o \in 0..(GFX_SIZE - 1) |-> 0]]

op_00E0(s) ==
    [s EXCEPT !.gfx = [o \in 0..(GFX_SIZE - 1) |-> 0], !.draw_flag = TRUE]

(* `self.sp -= 1` on sp = 0 panics where overflow is checked and wraps to   *)
(* usize::MAX where it is not; the wrapped value then indexes the 16-entry  *)
(* stack, which panics.                                                     *)
op_00EE(s) ==
    IF s.sp = 0
    THEN IF overflow_checks
         THEN Panic(s, "attempt to subtract with overflow")
         ELSE Panic(s, "index out of bounds")
    ELSE IF s.sp - 1 > STACK_SIZE - 1
         THEN Panic([s EXCEPT !.sp = @ - 1], "index out of bounds")
         ELSE [s EXCEPT !.sp = @ - 1, !.pc = s.stack[s.sp - 1]]

op_1nnn(s, nnn) == [s EXCEPT !.pc = nnn]

\* faulty variant: pushes the address of the call itself instead of the one after it
op_2nnn_PushesCallAddress(s, nnn) ==
    IF s.sp > STACK_SIZE - 1
    THEN Panic(s, "index out of bounds")
    ELSE [s EXCEPT !.stack[s.sp] = s.pc - 2, !.sp = @ + 1, !.pc = nnn]

\* faulty variant: a full stack wraps around to slot 0 instead of panicking
op_2nnn_WrapsWhenFull(s, nnn) ==
    [s EXCEPT !.stack[s.sp % STACK_SIZE] = s.pc, !.sp = @ + 1, !.pc = nnn]

op_2nnn(s, nnn) ==
    IF s.sp > STACK_SIZE - 1
    THEN Panic(s, "index out of bounds")
    ELSE [s EXCEPT !.stack[s.sp] = s.pc, !.sp = @ + 1, !.pc = nnn]

op_3xkk(s, x, kk) ==
    IF s.registers[x] = kk THEN [s EXCEPT !.pc = @ + 2] ELSE s

op_4xkk(s, x, kk) ==
    IF s.registers[x] # kk THEN [s EXCEPT !.pc = @ + 2] ELSE s

op_5xy0(s, x, y) ==
    IF s.registers[x] = s.registers[y] THEN [s EXCEPT !.pc = @ + 2] ELSE s

op_6xkk(s, x, kk) == [s EXCEPT !.registers[x] = kk]

op_7xkk(s, x, kk) == [s EXCEPT !.registers[x] = wrapping_add(@, kk)]

op_8xy0(s, x, y) == [s EXCEPT !.registers[x] = s.registers[y]]

op_8xy1(s, x, y) == [s EXCEPT !.registers[x] = BitOrW(@, s.registers[y], 8)]

op_8xy2(s, x, y) == [s EXCEPT !.registers[x] = BitAndW(@, s.registers[y], 8)]

op_8xy3(s, x, y) == [s EXCEPT !.registers[x] = BitXorW(@, s.registers[y], 8)]

(* The flag is written first, the result second: with x = F the result      *)
(* overwrites the flag, with y = F the flag written is the operand added.   *)
op_8xy4(s, x, y) ==
    LET t == [s EXCEPT !.registers[15] =
                 IF s.registers[x] + s.registers[y] > 255 THEN 1 ELSE 0]
    IN  [t EXCEPT !.registers[x] = wrapping_add(t.registers[x], t.registers[y])]

op_8xy5(s, x, y) ==
    LET t == [s EXCEPT !.registers[15] =
                 IF s.registers[x] < s.registers[y] THEN 0 ELSE 1]
    IN  [t EXCEPT !.registers[x] = wrapping_sub(t.registers[x], t.registers[y])]

op_8xy6(s, x, y) ==
    LET lsb == s.registers[x] % 2
        t   == [s EXCEPT !.registers[15] = lsb]
    IN  [t EXCEPT !.registers[x] = t.registers[x] \div 2]

(* The body of op_8xy7 is empty. *)
op_8xy7(s, x, y) == s

op_8xyE(s, x, y) ==
    LET msb == (s.registers[x] \div 128) % 2
        t   == [s EXCEPT !.registers[15] = msb]
    IN  [t EXCEPT !.registers[x] = (t.registers[x] * 2) % 256]

op_9xy0(s, x, y) ==
    IF s.registers[x] # s.registers[y] THEN [s EXCEPT !.pc = @ + 2] ELSE s

op_Annn(s, nnn) == [s EXCEPT !.index_register = nnn]

op_Bnnn(s, nnn) ==
    LET offset == s.registers[0] IN [s EXCEPT !.pc = nnn + offset]

(* rando is the byte rand::thread_rng().gen() returns. *)
op_Cxkk(s, x, kk, rando) == [s EXCEPT !.registers[x] = BitAndW(rando, kk, 8)]

\* faulty variant: a set sprite bit turns the pixel on (|=) instead of flipping it (^=)
RECURSIVE DxynLoop_Or(_, _, _, _, _, _)
DxynLoop_Or(s, x_coord, y_coord, offset, n, k) ==
    IF k >= 8 * n THEN s
    ELSE LET i   == k \div 8
             col == k % 8
         IN  IF offset + i > MEMORY_SIZE - 1
             THEN Panic(s, "index out of bounds")
             ELSE LET pixel == s.memory[offset + i]
                      goff  == (x_coord + col) + (PIXEL_WIDTH * (y_coord + i))
                  IN  IF BitAndW(pixel, 128 \div Pow2(col), 8) # 0 /\ goff < GFX_SIZE
                      THEN LET hit == BitXorW(s.gfx[goff], 1, 8) = 0
                               t   == IF hit THEN [s EXCEPT !.registers[15] = 1] ELSE s
                           IN  DxynLoop_Or([t EXCEPT !.gfx[goff] = BitOrW(@, 1, 8)],
                                           x_coord, y_coord, offset, n, k + 1)
                      ELSE DxynLoop_Or(s, x_coord, y_coord, offset, n, k + 1)

(* The two nested loops of op_Dxyn, flattened: step k handles sprite row     *)
(* i = k / 8 (read from memory[offset + i]) and bit col = k % 8 of it.       *)
RECURSIVE DxynLoop(_, _, _, _, _, _)
DxynLoop(s, x_coord, y_coord, offset, n, k) ==
    IF k >= 8 * n THEN s
    ELSE LET i   == k \div 8
             col == k % 8
         IN  IF offset + i > MEMORY_SIZE - 1
             THEN Panic(s, "index out of bounds")
             ELSE LET pixel == s.memory[offset + i]
                      goff  == (x_coord + col) + (PIXEL_WIDTH * (y_coord + i))
                  IN  IF BitAndW(pixel, 128 \div Pow2(col), 8) # 0 /\ goff < GFX_SIZE
                      THEN LET hit == BitXorW(s.gfx[goff], 1, 8) = 0
                               t   == IF hit THEN [s EXCEPT !.registers[15] = 1] ELSE s
                           IN  DxynLoop([t EXCEPT !.gfx[goff] = BitXorW(@, 1, 8)],
                                        x_coord, y_coord, offset, n, k + 1)
                      ELSE DxynLoop(s, x_coord, y_coord, offset, n, k + 1)

(* RF is cleared before the coordinates are read from Rx and Ry. *)
op_Dxyn(s, x, y, n) ==
    LET t       == [s EXCEPT !.draw_flag = TRUE, !.registers[15] = 0]
        x_coord == t.registers[x]
        y_coord == t.registers[y]
        offset  == t.index_register
    IN  DxynLoop(t, x_coord, y_coord, offset, n, 0)

(* `self.keys >> offset` shifts a u32 by a u8: a shift of 32 or more panics *)
(* where overflow is checked and shifts by offset mod 32 where it is not.   *)
KeyBit(s, offset) == Bit(s.keys, offset % 32)

op_Ex9E(s, x) ==
    LET offset == s.registers[x]
    IN  IF offset >= 32 /\ overflow_checks
        THEN Panic(s, "attempt to shift right with overflow")
        ELSE IF KeyBit(s, offset) # 0 THEN [s EXCEPT !.pc = @ + 2] ELSE s

op_ExA1(s, x) ==
    LET offset == s.registers[x]
    IN  IF offset >= 32 /\ overflow_checks
        THEN Panic(s, "attempt to shift right with overflow")
        ELSE IF KeyBit(s, offset) = 0 THEN [s EXCEPT !.pc = @ + 2] ELSE s

op_Fx07(s, x) == [s EXCEPT !.registers[x] = s.delay_timer]

(* The loop of op_Fx0A over i = 0..15: every set bit assigns Rx in turn. *)
RECURSIVE Fx0ALoop(_, _, _)
Fx0ALoop(s, x, i) ==
    IF i >= 16 THEN s
    ELSE Fx0ALoop(IF Bit(s.keys, i) = 1 THEN [s EXCEPT !.registers[x] = i] ELSE s,
                  x, i + 1)

\* faulty variant: no rewind of pc when no key is down
op_Fx0A_NoRewind(s, x) == Fx0ALoop(s, x, 0)

op_Fx0A(s, x) ==
    IF s.keys = 0
    THEN [s EXCEPT !.pc = @ - 2]
    ELSE Fx0ALoop(s, x, 0)

op_Fx15(s, x) == [s EXCEPT !.delay_timer = s.registers[x]]

op_Fx18(s, x) == [s EXCEPT !.sound_timer = s.registers[x]]

(* u16 addition: panics on overflow where it is checked, wraps where not. *)
op_Fx1E(s, x) ==
    LET sum == s.index_register + s.registers[x]
    IN  IF sum > 65535 /\ overflow_checks
        THEN Panic(s, "attempt to add with overflow")
        ELSE [s EXCEPT !.index_register = sum % 65536]

op_Fx29(s, x) == [s EXCEPT !.index_register = s.registers[x] * 5]

op_Fx33(s, x) ==
    LET value == s.registers[x]
        I     == s.index_register
    IN  IF I + 2 > MEMORY_SIZE - 1
        THEN Panic(s, "index out of bounds")
        ELSE [s EXCEPT !.memory = [a \in 0..(MEMORY_SIZE - 1) |->
                 IF a = I + 2 THEN value % 10
                 ELSE IF a = I + 1 THEN (value \div 10) % 10
                 ELSE IF a = I THEN (value \div 100) % 10
                 ELSE s.memory[a]]]

\* faulty variant: the store loop stops one register early
op_Fx55_SkipsLast(s, x) ==
    LET I == s.index_register
    IN  IF I + x > MEMORY_SIZE - 1
        THEN Panic(s, "index out of bounds")
        ELSE [s EXCEPT !.memory = [a \in 0..(MEMORY_SIZE - 1) |->
                           IF a >= I /\ a < I + x THEN s.registers[a - I]
                           ELSE s.memory[a]],
                       !.index_register = I + x + 1]

(* The loops of op_Fx55 / op_Fx65 touch the x+1 distinct cells I..I+x once   *)
(* each, in order; an index past the array panics before I is advanced.      *)
op_Fx55(s, x) ==
    LET I == s.index_register
    IN  IF I + x > MEMORY_SIZE - 1
        THEN Panic(s, "index out of bounds")
        ELSE [s EXCEPT !.memory = [a \in 0..(MEMORY_SIZE - 1) |->
                           IF a >= I /\ a <= I + x THEN s.registers[a - I]
                           ELSE s.memory[a]],
                       !.index_register = I + x + 1]

op_Fx65(s, x) ==
    LET I == s.index_register
    IN  IF I + x > MEMORY_SIZE - 1
        THEN Panic(s, "index out of bounds")
        ELSE [s EXCEPT !.registers = [r \in 0..15 |->
                           IF r <= x THEN s.memory[I + r] ELSE s.registers[r]],
                       !.index_register = I + x + 1]

-----------------------------------------------------------------------------
(* Decode and dispatch *)

(* A Rust range pattern lo..hi (exclusive_range_pattern) excludes hi. *)
InRange(op, lo, hi) == op >= lo /\ op < hi

InvalidOpcode(s) == Panic(s, "Invalid opcode")

execute_opcode(s, op, rando) ==
    LET x_reg == (op \div 256) % 16
        y_reg == (op \div 16) % 16
        nnn   == op % 4096
        kk    == op % 256
        n     == op % 16
        byte_instruction   == kk
        nibble_instruction == n
    IN  CASE op = \h00E0 -> op_00E0(s)
          [] op = \h00EE -> op_00EE(s)
          [] InRange(op, \h1000, \h1FFF) -> op_1nnn(s, nnn)
          [] InRange(op, \h2000, \h2FFF) -> op_2nnn(s, nnn)
          [] InRange(op, \h3000, \h3FFF) -> op_3xkk(s, x_reg, kk)
          [] InRange(op, \h4000, \h4FFF) -> op_4xkk(s, x_reg, kk)
          [] InRange(op, \h5000, \h5FFF) ->
                IF nibble_instruction = 0 THEN op_5xy0(s, x_reg, y_reg)
                ELSE InvalidOpcode(s)
          [] InRange(op, \h6000, \h6FFF) -> op_6xkk(s, x_reg, kk)
          [] InRange(op, \h7000, \h7FFF) -> op_7xkk(s, x_reg, kk)
          [] InRange(op, \h8000, \h8FFF) ->
                CASE nibble_instruction = 0  -> op_8xy0(s, x_reg, y_reg)
                  [] nibble_instruction = 1  -> op_8xy1(s, x_reg, y_reg)
                  [] nibble_instruction = 2  -> op_8xy2(s, x_reg, y_reg)
                  [] nibble_instruction = 3  -> op_8xy3(s, x_reg, y_reg)
                  [] nibble_instruction = 4  -> op_8xy4(s, x_reg, y_reg)
                  [] nibble_instruction = 5  -> op_8xy5(s, x_reg, y_reg)
                  [] nibble_instruction = 6  -> op_8xy6(s, x_reg, y_reg)
                  [] nibble_instruction = 7  -> op_8xy7(s, x_reg, y_reg)
                  [] nibble_instruction = 14 -> op_8xyE(s, x_reg, y_reg)
                  [] OTHER -> InvalidOpcode(s)
          [] InRange(op, \h9000, \h9FFF) ->
                IF nibble_instruction = 0 THEN op_9xy0(s, x_reg, y_reg)
                ELSE InvalidOpcode(s)
          [] InRange(op, \hA000, \hAFFF) -> op_Annn(s, nnn)
          [] InRange(op, \hB000, \hBFFF) -> op_Bnnn(s, nnn)
          [] InRange(op, \hC000, \hCFFF) -> op_Cxkk(s, x_reg, kk, rando)
          [] InRange(op, \hD000, \hDFFF) -> op_Dxyn(s, x_reg, y_reg, n)
          [] InRange(op, \hE000, \hEFFF) ->
                CASE byte_instruction = \h9E -> op_Ex9E(s, x_reg)
                  [] byte_instruction = \hA1 -> op_ExA1(s, x_reg)
                  [] OTHER -> InvalidOpcode(s)
          [] InRange(op, \hF000, \hFFFF) ->
                CASE byte_instruction = \h07 -> op_Fx07(s, x_reg)
                  [] byte_instruction = \h0A -> op_Fx0A(s, x_reg)
                  [] byte_instruction = \h15 -> op_Fx15(s, x_reg)
                  [] byte_instruction = \h18 -> op_Fx18(s, x_reg)
                  [] byte_instruction = \h1E -> op_Fx1E(s, x_reg)
                  [] byte_instruction = \h29 -> op_Fx29(s, x_reg)
                  [] byte_instruction = \h33 -> op_Fx33(s, x_reg)
                  [] byte_instruction = \h55 -> op_Fx55(s, x_reg)
                  [] byte_instruction = \h65 -> op_Fx65(s, x_reg)
                  [] OTHER -> InvalidOpcode(s)
          [] OTHER -> InvalidOpcode(s)

(* The timer block of step(): entered when sound_iterator is a multiple of  *)
(* 16; the counter is advanced on every step.                               *)
TimerDue(s) == s.sound_iterator % TIMER_PERIOD = 0

\* faulty variant: the timers are decremented without the > 0 test and wrap to 255
tick_timers_Wrapping(s) ==
    LET t == IF TimerDue(s)
             THEN [s EXCEPT !.sound_timer = (@ + 255) % 256,
                            !.delay_timer = (@ + 255) % 256,
                            !.sound_iterator = 0]
             ELSE s
    IN  [t EXCEPT !.sound_iterator = @ + 1]

tick_timers(s) ==
    LET t == IF TimerDue(s)
             THEN [s EXCEPT !.sound_timer = IF @ > 0 THEN @ - 1 ELSE @,
                            !.delay_timer = IF @ > 0 THEN @ - 1 ELSE @,
                            !.sound_iterator = 0]
             ELSE s
    IN  [t EXCEPT !.sound_iterator = @ + 1]   \* wrapping_add on a u32 that stays <= 16

\* faulty variant: the opcode is executed before the timer block runs
step_ExecutesFirst(s, rando) ==
    LET f == fetch_opcode(s)
    IN  IF ~Running(f.chip8) THEN f.chip8
        ELSE LET t == execute_opcode(f.chip8, f.opcode, rando)
             IN  IF Running(t) THEN tick_timers(t) ELSE t

(* Chip8::step: fetch (unwrap), timers, execute. *)
step(s, rando) ==
    LET f == fetch_opcode(s)
    IN  IF ~Running(f.chip8) THEN f.chip8
        ELSE execute_opcode(tick_timers(f.chip8), f.opcode, rando)

(* Chip8::set_key and Chip8::clear_keys *)
set_key(s, key) == [s EXCEPT !.keys = BitOr(@, Pow2(key))]

clear_keys(s) == [s EXCEPT !.keys = 0]

-----------------------------------------------------------------------------
(* Inputs: the ROM files main() may be started on, the key sets the host    *)
(* may report in one loop iteration, the bytes the random generator may     *)
(* return.                                                                  *)

RomBytes(words) ==
    [i \in 1..(2 * Len(words)) |->
        IF i % 2 = 1 THEN words[(i + 1) \div 2] \div 256 ELSE words[i \div 2] % 256]

\* 200: wait for a key into R3; 202/204: skip on key R3 down / up; then 0000 (invalid)
KeyWaitRom == RomBytes(<< \hF30A, \hE39E, \hE3A1, \h0000, \h0000 >>)

\* 200: call 206; 202: call 20A; 204: return on an empty stack
\* 206: call 20A; 208: return;   20A: return
NestedCallRom == RomBytes(<< \h2206, \h220A, \h00EE, \h220A, \h00EE, \h00EE >>)

\* 200: call 200, for ever
OverflowRom == RomBytes(<< \h2200 >>)

\* f_k at 200+4k (k = 0..15) calls f_(k+1) and then returns (f_0: stops on 0000);
\* f_16 at 240 returns at once: the stack fills to 16 entries and unwinds.
DeepCallRom ==
    RomBytes([w \in 1..33 |->
        IF w = 33 THEN \h00EE
        ELSE IF w % 2 = 1 THEN \h2000 + ROM_BASE + 4 * (((w - 1) \div 2) + 1)
        ELSE IF w = 2 THEN \h0000 ELSE \h00EE])

\* 200: R0 = 1; delay = R0; R1 = 2; sound = R1; 208: R2 = delay; 20A: jump 208
TimerRom == RomBytes(<< \h6001, \hF015, \h6102, \hF118, \hF207, \h1208 >>)

\* 200: R0 = random; 202: R1 = random; 204: draw glyph "0" (I = 0), 5 rows, at (R0, R1)
\* 206: R3 = random & 3; 208: I = 216; 20A: I += R3
\* 20C, 20E, 210: draw the 1-row sprite at I three times at (R0, R1)
\* 212: draw 5 rows from I there; 214: 0000 (invalid)
\* 216: sprite data FF, 00, 0F, 00
DrawRom ==
    RomBytes(<< \hC0FF, \hC1FF, \hD015, \hC303, \hA216, \hF31E, \hD011, \hD011,
                \hD011, \hD015, \h0000, \hFF00, \h0F00 >>)

\* 200: R0 = random; 202: R1 = random; 204: 8017; 206: 0000 (invalid)
AluRom == RomBytes(<< \hC0FF, \hC1FF, \h8017, \h0000 >>)

\* one-word ROMs: words at the edges of the dispatch patterns
DispatchWords ==
    { \h00E1, \h0FFF, \h1FFF, \h2FFF, \h3FFF, \h4FFF, \h5001, \h5FFF, \h6FFF, \h7FFF,
      \h8008, \h8FFF, \h9001, \hAFFF, \hBFFF, \hCFFF, \hDFFF, \hE000, \hEFFF, \hF000,
      \hFFFF, \h6FFE, \hAFFE, \h3FFE }

DispatchRoms == { RomBytes(<< w >>) : w \in DispatchWords }

\* ROMs that send pc to the top of memory and past it
FetchRoms ==
    { RomBytes(<< \h1FFC >>), RomBytes(<< \h1FFD >>), RomBytes(<< \h1FFE >>),
      RomBytes(<< \h6001, \hBFFE >>), RomBytes(<< \h60FF, \hBFFE >>) }

\* the bytes memory has room for from 0x200 on
ROM_CAPACITY == MEMORY_SIZE - ROM_BASE

\* a file of len bytes: 00E0, zeroes, and a last byte 0x55
FilledRom(len) ==
    [i \in 1..len |-> IF i = 2 THEN \hE0 ELSE IF i = len THEN \h55 ELSE 0]

\* a file that fills memory exactly and one that is a byte longer
FullRoms == { FilledRom(ROM_CAPACITY), FilledRom(ROM_CAPACITY + 1) }

\* ROMs that store through I inside the font region and just above it
FontRoms ==
    { RomBytes(<< \h60FF, \hA04F, \hF055 >>), RomBytes(<< \h60FF, \hA000, \hF033 >>),
      RomBytes(<< \h60FF, \hA050, \hF055, \hA050, \hF033 >>) }

\* ROMs that address memory through I at the top of memory and past it
IndexRoms ==
    { RomBytes(<< \hAFFE, \hF255 >>), RomBytes(<< \hAFFE, \hF265 >>),
      RomBytes(<< \hAFFE, \hF033 >>), RomBytes(<< \hAFFE, \h60FF, \hF01E, \hD001 >>) }

\* 200: R0 = F0; 202: R1 = random; 204: R0 += R1; 206: RF = random & FE;
\* 208: R0 += RF; 20A: 0000 (invalid)
AddRom == RomBytes(<< \h60F0, \hC1FF, \h8014, \hCFFE, \h80F4, \h0000 >>)

\* 200: R0 = 1E; 202: R1 = random; 204: R0 -= R1; 206: RF = random & FE;
\* 208: R0 -= RF; 20A: 0000 (invalid)
SubRom == RomBytes(<< \h601E, \hC1FF, \h8015, \hCFFE, \h80F5, \h0000 >>)

\* 200: R0 = random; 202: R1 = 55; 204: I = 300; 206: store R0..R1;
\* 208, 20A: R0 = R1 = 0; 20C: I = 300; 20E: load R0..R1;
\* 210: RF = AA; 212: I = FF0; 214: store R0..RF (the last cell is FFF);
\* 216, 218, 21A: R0 = R1 = RF = 0; 21C: I = FF0; 21E: load R0..RF; 220: 0000 (invalid)
StoreLoadRom ==
    RomBytes(<< \hC0FF, \h6155, \hA300, \hF155, \h6000, \h6100, \hA300, \hF165,
                \h6FAA, \hAFF0, \hFF55, \h6000, \h6100, \h6F00, \hAFF0, \hFF65,
                \h0000 >>)

\* 200: draw glyph "0" (I = 0), 5 rows, at (0, 0); 202: clear; 204: clear the blank display;
\* 206: draw 0 rows; 208: draw glyph "0"; 20A: draw 0 rows; 20C: 0000 (invalid)
ClearRom == RomBytes(<< \hD005, \h00E0, \h00E0, \hD000, \hD005, \hD000, \h0000 >>)

Roms ==
    { KeyWaitRom, NestedCallRom, OverflowRom, DeepCallRom, TimerRom, DrawRom, AluRom }
        \cup DispatchRoms \cup FetchRoms \cup FullRoms \cup FontRoms \cup IndexRoms
        \cup { AddRom, SubRom, StoreLoadRom, ClearRom }

KeySets == { {}, {7}, {2, 9} }

RandomBytes == { 0, 31, 60, 62 }

-----------------------------------------------------------------------------
(* History records *)

Snapshot(s) ==
    [ pc |-> s.pc, registers |-> s.registers, index_register |-> s.index_register,
      delay_timer |-> s.delay_timer, sound_timer |-> s.sound_timer, gfx |-> s.gfx,
      draw_flag |-> s.draw_flag, keys |-> s.keys, sp |-> s.sp, stack |-> s.stack,
      sound_iterator |-> s.sound_iterator ]

Snapshot2(p) ==
    [ registers |-> p.registers, index_register |-> p.index_register, gfx |-> p.gfx ]

IsCall(op)   == InRange(op, \h2000, \h2FFF)
IsReturn(op) == op = \h00EE
IsFx33(op)   == InRange(op, \hF000, \hFFFF) /\ op % 256 = \h33
IsFx55(op)   == InRange(op, \hF000, \hFFFF) /\ op % 256 = \h55
IsFx65(op)   == InRange(op, \hF000, \hFFFF) /\ op % 256 = \h65

NothingStored == [x |-> -1, index_register |-> 0, registers |-> new.registers]

-----------------------------------------------------------------------------
(* main(): load the ROM, then loop { read keys; step; present; clear keys } *)

Init ==
    /\ chip8 = new
    /\ overflow_checks \in BOOLEAN
    /\ phase = "load"
    /\ prev = Snapshot(new)
    /\ prev2 = Snapshot2(new)
    /\ opcode = -1
    /\ opcode2 = -1
    /\ steps = 0
    /\ ticks = 0
    /\ elapsed_ms = 0
    /\ call_sites = << >>
    /\ matched = -1
    /\ rom_file = << >>
    /\ stored = NothingStored

LoadRom ==
    /\ phase = "load"
    /\ \E file \in Roms : chip8' = load_rom(chip8, file) /\ rom_file' = file
    /\ phase' = "keys"
    /\ UNCHANGED <<overflow_checks, prev, prev2, opcode, opcode2, steps, ticks,
                   elapsed_ms, call_sites, matched, stored>>

RECURSIVE SetKeys(_, _)
SetKeys(s, pressed) ==
    IF pressed = {} THEN s
    ELSE LET key == CHOOSE k \in pressed : \A j \in pressed : k <= j
         IN  SetKeys(set_key(s, key), pressed \ {key})

HostSetKeys ==
    /\ phase = "keys"
    /\ Running(chip8)
    /\ \E pressed \in KeySets : chip8' = SetKeys(chip8, pressed)
    /\ phase' = "step"
    /\ UNCHANGED <<overflow_checks, prev, prev2, opcode, opcode2, steps, ticks,
                   elapsed_ms, call_sites, matched, rom_file, stored>>

Step ==
    /\ phase = "step"
    /\ Running(chip8)
    /\ steps < MaxSteps
    /\ LET f == fetch_opcode(chip8)
       IN  /\ \E rando \in (IF InRange(f.opcode, \hC000, \hCFFF) THEN RandomBytes ELSE {0}) :
                 chip8' = step(chip8, rando)
           /\ opcode' = f.opcode
           /\ ticks' = IF Running(f.chip8) /\ TimerDue(f.chip8) THEN ticks + 1 ELSE ticks
           /\ call_sites' =
                 IF IsCall(f.opcode) /\ Running(chip8') THEN Append(call_sites, chip8.pc)
                 ELSE IF IsReturn(f.opcode) /\ Running(chip8')
                      THEN SubSeq(call_sites, 1, Len(call_sites) - 1)
                 ELSE call_sites
           /\ matched' =
                 IF IsReturn(f.opcode) /\ Running(chip8') /\ Len(call_sites) > 0
                 THEN call_sites[Len(call_sites)] ELSE -1
           /\ stored' =
                 IF IsFx55(f.opcode) /\ Running(chip8')
                 THEN [x |-> (f.opcode \div 256) % 16, index_register |-> chip8.index_register,
                       registers |-> chip8.registers]
                 ELSE IF IsFx33(f.opcode) THEN NothingStored
                 ELSE stored
    /\ prev' = Snapshot(chip8)
    /\ prev2' = Snapshot2(prev)
    /\ opcode2' = opcode
    /\ steps' = steps + 1
    /\ phase' = "present"
    /\ UNCHANGED <<overflow_checks, elapsed_ms, rom_file>>

(* if chip8.draw_flag { chip8.draw_flag = false; update_graphics(..) }, then *)
(* window.update_with_buffer, which returns once the 1 ms update rate limit  *)
(* allows; d is the time the loop iteration took.                            *)
Present(d) ==
    /\ phase = "present"
    /\ Running(chip8)
    /\ chip8' = IF chip8.draw_flag THEN [chip8 EXCEPT !.draw_flag = FALSE] ELSE chip8
    /\ elapsed_ms' = elapsed_ms + d
    /\ phase' = "clear"
    /\ UNCHANGED <<overflow_checks, prev, prev2, opcode, opcode2, steps, ticks,
                   call_sites, matched, rom_file, stored>>

\* an iteration as fast as the rate limit allows
HostPresent == Present(UPDATE_RATE_MS)

\* an iteration the host spends longer on
HostPresentLate ==
    \E d \in (UPDATE_RATE_MS + 1)..MaxFrameMs :
        /\ elapsed_ms + d - steps * UPDATE_RATE_MS <= MaxLagMs
        /\ Present(d)

HostClearKeys ==
    /\ phase = "clear"
    /\ Running(chip8)
    /\ chip8' = clear_keys(chip8)
    /\ phase' = "keys"
    /\ UNCHANGED <<overflow_checks, prev, prev2, opcode, opcode2, steps, ticks,
                   elapsed_ms, call_sites, matched, rom_file, stored>>

Next == LoadRom \/ HostSetKeys \/ Step \/ HostPresent \/ HostClearKeys

(* Spec: the host runs every loop iteration at the rate limit.  SpecLate:    *)
(* iterations may also take longer, up to MaxFrameMs each and MaxLagMs in    *)
(* all.  The machine never reads the clock, so the two differ in elapsed_ms *)
(* alone.                                                                   *)
Spec == Init /\ [][Next]_vars

NextLate == Next \/ HostPresentLate

SpecLate == Init /\ [][NextLate]_vars

-----------------------------------------------------------------------------
(* Properties.  They read the history variables: prev is the machine before *)
(* the latest step(), opcode the word that step fetched.                    *)

Executed == opcode >= 0                  \* the latest step() fetched a word
OpX      == (opcode \div 256) % 16
OpY      == (opcode \div 16) % 16
OpN      == opcode % 16

IsFx0A(op) == InRange(op, \hF000, \hFFFF) /\ op % 256 = \h0A

RECURSIVE LowestKeyFrom(_, _)
LowestKeyFrom(mask, i) ==
    IF i >= 16 \/ Bit(mask, i) = 1 THEN i ELSE LowestKeyFrom(mask, i + 1)

LowestKey(mask) == LowestKeyFrom(mask, 0)

(* C1: a step that executes Fx0A with no key down leaves pc and every       *)
(* general register as they were, so that the word at pc is the same Fx0A   *)
(* and the next step fetches it again; a step that executes Fx0A with a     *)
(* key down leaves pc at the address after the Fx0A.                        *)
C1_KeyWaitBusyPoll ==
    (IsFx0A(opcode) /\ Running(chip8)) =>
        /\ prev.keys = 0 =>
              /\ chip8.pc = prev.pc
              /\ chip8.registers = prev.registers
              /\ fetch_opcode(chip8).opcode = opcode
        /\ prev.keys # 0 => chip8.pc = prev.pc + 2

\* an Fx0A that waited on the step before is executed again, now with a key down
C1_Witness ==
    /\ IsFx0A(opcode) /\ IsFx0A(opcode2) /\ Running(chip8)
    /\ steps >= 3
    /\ prev.keys # 0
    /\ chip8.pc = prev.pc + 2

(* C2: after Fx0A executes with a key down, Rx holds the index of the       *)
(* lowest-indexed set bit of the key mask.                                  *)
C2_LowestKeyCaptured ==
    (IsFx0A(opcode) /\ Running(chip8) /\ prev.keys # 0) =>
        chip8.registers[OpX] = LowestKey(prev.keys)

(* C3: a 00EE executed while a call is outstanding sets pc to the address   *)
(* of the matching 2nnn plus 2.                                             *)
C3_CallReturnLIFO ==
    (IsReturn(opcode) /\ Running(chip8) /\ matched >= 0) => chip8.pc = matched + 2

\* the return from the 16th nested call, and it is not the call executed last
C3_Witness ==
    /\ IsReturn(opcode) /\ Running(chip8)
    /\ prev.sp = STACK_SIZE
    /\ chip8.pc = matched + 2
    /\ Len(call_sites) = STACK_SIZE - 1

(* C4: while the machine runs 0 <= sp <= 16; a 2nnn executed with sp = 16   *)
(* and a 00EE executed with sp = 0 panic, leaving the stack as it was, and  *)
(* after a panic no action of the program is enabled.                       *)
C4_StackBounds ==
    /\ Running(chip8) => chip8.sp \in 0..STACK_SIZE
    /\ (IsCall(opcode) /\ prev.sp = STACK_SIZE) =>
          ~Running(chip8) /\ chip8.stack = prev.stack
    /\ (IsReturn(opcode) /\ prev.sp = 0) =>
          ~Running(chip8) /\ chip8.stack = prev.stack
    /\ ~Running(chip8) => ~ENABLED Next

\* the 17th nested call has panicked
C4_Witness ==
    /\ IsCall(opcode) /\ prev.sp = STACK_SIZE
    /\ ~Running(chip8)

\* a return on the empty stack has panicked
C4_WitnessUnderflow ==
    /\ IsReturn(opcode) /\ prev.sp = 0
    /\ ~Running(chip8)

(* C5: the number of timer ticks performed equals floor(elapsed seconds *   *)
(* 60), whatever the number of step() calls made in that time.              *)
C5_TicksMatchElapsedTime == ticks = (elapsed_ms * 60) \div 1000

IsFx15(op) == InRange(op, \hF000, \hFFFF) /\ op % 256 = \h15
IsFx18(op) == InRange(op, \hF000, \hFFFF) /\ op % 256 = \h18

\* the latest step() entered its timer block
TickDue == prev.sound_iterator % TIMER_PERIOD = 0

AfterTick(v) == IF TickDue /\ v > 0 THEN v - 1 ELSE v

(* C6: a step whose timer block runs lowers each timer that is > 0 by one   *)
(* and leaves a timer that is 0 at 0; beyond that, delay_timer is changed   *)
(* only by Fx15 (to Rx) and sound_timer only by Fx18 (to Rx), and nothing   *)
(* outside step() changes either.                                           *)
C6_TimersSaturate ==
    /\ chip8.delay_timer \in 0..255
    /\ chip8.sound_timer \in 0..255
    /\ ~Executed =>
          /\ chip8.delay_timer = prev.delay_timer
          /\ chip8.sound_timer = prev.sound_timer
    /\ Executed =>
          /\ chip8.delay_timer =
                IF IsFx15(opcode) THEN prev.registers[OpX] ELSE AfterTick(prev.delay_timer)
          /\ chip8.sound_timer =
                IF IsFx18(opcode) THEN prev.registers[OpX] ELSE AfterTick(prev.sound_timer)

\* one tick takes sound_timer from 1 to 0 and leaves delay_timer, already 0, at 0
C6_Witness ==
    /\ Executed /\ TickDue
    /\ ~IsFx15(opcode) /\ ~IsFx18(opcode)
    /\ prev.delay_timer = 0 /\ chip8.delay_timer = 0
    /\ prev.sound_timer = 1 /\ chip8.sound_timer = 0
    /\ ticks >= 3

IsDxyn(op) == InRange(op, \hD000, \hDFFF)

Min(a, b) == IF a < b THEN a ELSE b

Col(o) == o % PIXEL_WIDTH
Row(o) == o \div PIXEL_WIDTH

Cells == 0..(GFX_SIZE - 1)

InSpriteBox(o, rx, ry, n) ==
    /\ rx <= Col(o) /\ Col(o) < Min(rx + 8, PIXEL_WIDTH)
    /\ ry <= Row(o) /\ Row(o) < Min(ry + n, PIXEL_HEIGHT)

(* C7: after Dxyn the only display cells that differ from before are those  *)
(* with Rx <= col < min(Rx + 8, 64) and Ry <= row < min(Ry + n, 32).        *)
C7_DrawClips ==
    (IsDxyn(opcode) /\ Running(chip8)) =>
        \A o \in Cells :
            chip8.gfx[o] # prev.gfx[o] =>
                InSpriteBox(o, prev.registers[OpX], prev.registers[OpY], OpN)

\* bit b (0 = leftmost) of sprite row i is set
SpriteBit(i, b) == Bit(chip8.memory[prev.index_register + i], 7 - b) = 1

\* cell o is inside the grid at (Rx + b, Ry + i) for a set bit b of sprite row i
Targeted(o) ==
    \E i \in 0..(OpN - 1) : \E b \in 0..7 :
        /\ SpriteBit(i, b)
        /\ prev.registers[OpX] + b < PIXEL_WIDTH
        /\ prev.registers[OpY] + i < PIXEL_HEIGHT
        /\ o = (prev.registers[OpX] + b) + PIXEL_WIDTH * (prev.registers[OpY] + i)

Collided == \E o \in Cells : prev.gfx[o] = 1 /\ chip8.gfx[o] = 0

\* the flag half of C8 alone: after Dxyn, RF = 1 iff some pixel went from 1 to 0
C8_CollisionFlag ==
    (IsDxyn(opcode) /\ Running(chip8)) =>
        chip8.registers[15] = (IF Collided THEN 1 ELSE 0)

(* C8: after Dxyn, RF = 1 iff some pixel that was 1 is now 0, else RF = 0;  *)
(* every pixel targeted by a set sprite bit is flipped, and every other     *)
(* pixel is unchanged.                                                      *)
C8_DrawXorCollision ==
    (IsDxyn(opcode) /\ Running(chip8)) =>
        /\ chip8.registers[15] = (IF Collided THEN 1 ELSE 0)
        /\ \A o \in Cells :
              chip8.gfx[o] = IF Targeted(o) THEN 1 - prev.gfx[o] ELSE prev.gfx[o]

\* the latest two steps drew the same 1-row sprite (same opcode Dxy1, I, Rx, Ry)
\* at an in-grid coordinate
SameDrawTwice ==
    /\ IsDxyn(opcode) /\ OpN = 1 /\ opcode2 = opcode
    /\ Running(chip8)
    /\ prev.index_register = prev2.index_register
    /\ prev.registers[OpX] = prev2.registers[OpX]
    /\ prev.registers[OpY] = prev2.registers[OpY]
    /\ prev.registers[OpX] < PIXEL_WIDTH
    /\ prev.registers[OpY] < PIXEL_HEIGHT

(* C9, as claimed: drawing the same 1-row sprite twice at the same in-grid  *)
(* coordinates leaves the buffer as it was before the first draw, and RF = 1. *)
C9_DoubleDrawAlwaysCollides ==
    SameDrawTwice => chip8.gfx = prev2.gfx /\ chip8.registers[15] = 1

FirstDrawLit == \E o \in Cells : prev2.gfx[o] = 0 /\ prev.gfx[o] = 1

(* C9, amended: the buffer is back to its contents before the first draw;   *)
(* RF = 1 after the second draw if the first draw turned at least one pixel *)
(* on, and RF = 0 if it turned none on.                                     *)
C9_DoubleDrawRestores ==
    SameDrawTwice =>
        /\ chip8.gfx = prev2.gfx
        /\ chip8.registers[15] = (IF FirstDrawLit THEN 1 ELSE 0)

\* a second draw that turns off what the first turned on, on a buffer that was not blank
C9_Witness ==
    /\ SameDrawTwice
    /\ FirstDrawLit
    /\ chip8.registers[15] = 1
    /\ \E o \in Cells : prev2.gfx[o] = 1
    /\ chip8.gfx = prev2.gfx

\* a second draw of a sprite that turned nothing on: RF = 0
C9_WitnessNoCollision ==
    /\ SameDrawTwice
    /\ ~FirstDrawLit
    /\ chip8.registers[15] = 0

Is8xy7(op) == InRange(op, \h8000, \h8FFF) /\ op % 16 = 7

(* C10: 8xy7 sets Rx to (Ry - Rx) mod 256 and RF to 1 if Ry >= Rx (values   *)
(* before the instruction), else to 0 (stated for x # F, where the two      *)
(* assignments do not meet in one register).                                *)
C10_SubN ==
    (Is8xy7(opcode) /\ Running(chip8) /\ OpX # 15) =>
        /\ chip8.registers[OpX] =
              (prev.registers[OpY] - prev.registers[OpX] + 256) % 256
        /\ chip8.registers[15] =
              (IF prev.registers[OpY] >= prev.registers[OpX] THEN 1 ELSE 0)

-----------------------------------------------------------------------------
(* The patterns of the canonical opcode table: a word matches if its top    *)
(* nibble selects a family and, for the families 0, 5, 8, 9, E, F, its low  *)
(* nibble or byte is one the table lists.                                   *)
MatchesPattern(w) ==
    LET family == w \div 4096
        kk     == w % 256
        n      == w % 16
    IN  CASE family = 0            -> w \in { \h00E0, \h00EE }
          [] family \in {5, 9}     -> n = 0
          [] family = 8            -> n \in { 0, 1, 2, 3, 4, 5, 6, 7, 14 }
          [] family = 14           -> kk \in { \h9E, \hA1 }
          [] family = 15           -> kk \in { \h07, \h0A, \h15, \h18, \h1E, \h29,
                                               \h33, \h55, \h65 }
          [] OTHER                 -> TRUE

Rejected == chip8.panicked = "Invalid opcode"

(* C11: a fetched word is rejected as an invalid opcode if and only if it   *)
(* matches none of the patterns of the canonical table; every word that     *)
(* matches one, whatever its operand, is executed by a handler.             *)
C11_DispatchExact == Executed => (Rejected <=> ~MatchesPattern(opcode))

\* the part of C11 that holds: a word that matches no pattern is always rejected
C11_UnmatchedRejected == (Executed /\ ~MatchesPattern(opcode)) => Rejected

-----------------------------------------------------------------------------
\* the machine is about to run step()
AtStep == phase = "step" /\ Running(chip8) /\ steps < MaxSteps

(* C12: a fetch with pc <= 0xFFE succeeds, yields the big-endian word       *)
(* memory[pc] * 256 + memory[pc + 1] and leaves pc two higher for the       *)
(* handler; a fetch is fatal exactly when pc > 0xFFE.                       *)
C12_FetchInRange ==
    AtStep =>
        LET f == fetch_opcode(chip8)
        IN  IF chip8.pc <= PC_LIMIT
            THEN /\ Running(f.chip8)
                 /\ f.opcode = chip8.memory[chip8.pc] * 256 + chip8.memory[chip8.pc + 1]
                 /\ f.chip8.pc = chip8.pc + 2
            ELSE ~Running(f.chip8)

\* what the fetch does do: it succeeds exactly when pc + 2 <= 0xFFE
C12_FetchBelowLimit ==
    AtStep =>
        LET f == fetch_opcode(chip8)
        IN  IF chip8.pc + 2 <= PC_LIMIT
            THEN /\ Running(f.chip8)
                 /\ f.opcode = chip8.memory[chip8.pc] * 256 + chip8.memory[chip8.pc + 1]
                 /\ f.chip8.pc = chip8.pc + 2
            ELSE ~Running(f.chip8)

-----------------------------------------------------------------------------
\* load_rom has returned and no step has run yet
Loaded == phase = "keys" /\ steps = 0

\* memory holds the file's bytes from 0x200 on and is untouched elsewhere
RomInMemory ==
    \A a \in 0..(MEMORY_SIZE - 1) :
        chip8.memory[a] = IF a >= ROM_BASE /\ a - ROM_BASE < Len(rom_file)
                          THEN rom_file[a - ROM_BASE + 1] ELSE new.memory[a]

(* C13: loading a ROM of at most 3584 bytes writes exactly those bytes to   *)
(* memory from 0x200 on and succeeds; loading a longer ROM fails and leaves *)
(* memory and every other field as new() made them.                         *)
C13_LoadRomChecked ==
    Loaded =>
        IF Len(rom_file) <= ROM_CAPACITY
        THEN Running(chip8) /\ RomInMemory
        ELSE ~Running(chip8) /\ chip8.memory = new.memory

\* the part of C13 that holds: a ROM that fits is loaded byte for byte
C13_LoadRomFits ==
    (Loaded /\ Len(rom_file) <= ROM_CAPACITY) => (Running(chip8) /\ RomInMemory)

-----------------------------------------------------------------------------
\* memory[0x000..0x04F] holds the font table that new() wrote
FontIntact == \A a \in 0..(Len(CHIP8_FONTSET) - 1) : chip8.memory[a] = CHIP8_FONTSET[a + 1]

(* C14: in every state reached by a ROM load and any number of steps,       *)
(* memory[0x000..0x04F] equals the 80-byte font table written by new().     *)
C14_FontImmutable == FontIntact

\* the part of C14 that holds: load_rom leaves the font table as new() wrote it
C14_FontLoaded == Loaded => FontIntact

-----------------------------------------------------------------------------
\* the opcodes that address memory through the index register
UsesIndex(op) == IsDxyn(op) \/ IsFx33(op) \/ IsFx55(op) \/ IsFx65(op)

(* C15: no step addresses memory outside 0x000..0xFFF: whatever the index   *)
(* register holds, Dxyn, Fx33, Fx55 and Fx65 use addresses in range, so     *)
(* none of them ever runs into the end of the memory array.                 *)
C15_AccessInRange ==
    (Executed /\ UsesIndex(opcode)) => chip8.panicked # "index out of bounds"

-----------------------------------------------------------------------------
Is8xy4(op) == InRange(op, \h8000, \h8FFF) /\ op % 16 = 4
Is8xy5(op) == InRange(op, \h8000, \h8FFF) /\ op % 16 = 5

\* the operands Rx and Ry as they were before the step
OperandX == prev.registers[OpX]
OperandY == prev.registers[OpY]

(* C16: 8xy4 with x # F, for every y (y = F included), leaves               *)
(* Rx = (Rx + Ry) mod 256 and RF = 1 if Rx + Ry > 255, else 0, both from    *)
(* the values Rx and Ry had before the instruction.                         *)
C16_AddCarry ==
    (Executed /\ Is8xy4(opcode) /\ OpX # 15) =>
        /\ chip8.registers[OpX] = (OperandX + OperandY) % 256
        /\ chip8.registers[15] = IF OperandX + OperandY > 255 THEN 1 ELSE 0

\* the part of C16 that holds: y # F as well
C16_AddCarryOtherY ==
    (Executed /\ Is8xy4(opcode) /\ OpX # 15 /\ OpY # 15) =>
        /\ chip8.registers[OpX] = (OperandX + OperandY) % 256
        /\ chip8.registers[15] = IF OperandX + OperandY > 255 THEN 1 ELSE 0

(* C17: 8xy5 with x # F, for every y (y = F included), leaves               *)
(* Rx = (Rx - Ry) mod 256 and RF = 1 if Rx >= Ry, else 0, both from the     *)
(* values Rx and Ry had before the instruction.                             *)
C17_SubBorrow ==
    (Executed /\ Is8xy5(opcode) /\ OpX # 15) =>
        /\ chip8.registers[OpX] = (OperandX - OperandY + 256) % 256
        /\ chip8.registers[15] = IF OperandX >= OperandY THEN 1 ELSE 0

\* the part of C17 that holds: y # F as well
C17_SubBorrowOtherY ==
    (Executed /\ Is8xy5(opcode) /\ OpX # 15 /\ OpY # 15) =>
        /\ chip8.registers[OpX] = (OperandX - OperandY + 256) % 256
        /\ chip8.registers[15] = IF OperandX >= OperandY THEN 1 ELSE 0

-----------------------------------------------------------------------------
\* the latest step ran Fx65 with the x and the I of the latest Fx55, and no
\* Fx33 wrote to memory in between
LoadsBack ==
    /\ Executed /\ IsFx65(opcode)
    /\ OpX = stored.x
    /\ prev.index_register = stored.index_register

(* C18: Fx55, I set back to its value before the store, then Fx65 with the  *)
(* same x, brings back R0..Rx as they were at the store, for every x and I  *)
(* with I + x <= 0xFFF; each of Fx55 and Fx65 runs for such I, adds x + 1   *)
(* to I and leaves the registers above Rx as they were.                     *)
C18_StoreLoadRoundTrip ==
    /\ LoadsBack => \A r \in 0..OpX : chip8.registers[r] = stored.registers[r]
    /\ (Executed /\ (IsFx55(opcode) \/ IsFx65(opcode))
                 /\ prev.index_register + OpX <= MEMORY_SIZE - 1) =>
          /\ Running(chip8)
          /\ chip8.index_register = prev.index_register + OpX + 1
          /\ \A r \in (OpX + 1)..15 : chip8.registers[r] = prev.registers[r]

\* FF65 at I = 0xFF0 brings back registers that were cleared after FF55 stored them
C18_Witness ==
    /\ LoadsBack /\ Running(chip8)
    /\ OpX = 15 /\ prev.index_register + OpX = MEMORY_SIZE - 1
    /\ prev.registers[0] = 0 /\ prev.registers[1] = 0 /\ prev.registers[15] = 0
    /\ chip8.registers[0] = 62 /\ chip8.registers[1] = \h55 /\ chip8.registers[15] = \hAA
    /\ chip8.index_register = MEMORY_SIZE

-----------------------------------------------------------------------------
\* step() has returned and the host has not looked at draw_flag yet
Stepped == Executed /\ phase = "present"

Blank(gfx) == \A o \in 0..(GFX_SIZE - 1) : gfx[o] = 0

(* C19: every 00E0 leaves all pixels 0 and the redraw flag set, every Dxyn  *)
(* leaves the flag set even if it changes no pixel, and no step() turns a   *)
(* set flag off, whichever opcode it runs: only the host's draw_flag =      *)
(* false does.                                                              *)
C19_RedrawFlag ==
    /\ (Stepped /\ opcode = \h00E0) => (chip8.draw_flag /\ Blank(chip8.gfx))
    /\ (Stepped /\ IsDxyn(opcode)) => chip8.draw_flag
    /\ AtStep => \A rando \in RandomBytes :
                    step([chip8 EXCEPT !.draw_flag = TRUE], rando).draw_flag

\* 00E0 wiped a drawn display and asked for the redraw the host had already done once
C19_Witness ==
    /\ Stepped /\ opcode = \h00E0
    /\ ~Blank(prev.gfx) /\ ~prev.draw_flag
    /\ Blank(chip8.gfx) /\ chip8.draw_flag

\* a Dxyn of 0 rows changed no pixel of a drawn display and asked for a redraw
C19_WitnessNoPixel ==
    /\ Stepped /\ IsDxyn(opcode) /\ OpN = 0
    /\ ~Blank(prev.gfx) /\ chip8.gfx = prev.gfx /\ ~prev.draw_flag
    /\ chip8.draw_flag

-----------------------------------------------------------------------------
IsFx07(op) == InRange(op, \hF000, \hFFFF) /\ op % 256 = \h07

(* C20: the timer block runs in the k-th step() since new() exactly when    *)
(* k mod 16 = 1 (steps 1, 17, 33, ...), whatever opcodes the steps run,     *)
(* a re-executed Fx0A included; it runs before the step's opcode, so an     *)
(* Fx07 in such a step reads the delay timer already decremented.           *)
C20_TickCadence ==
    Executed =>
        /\ TickDue <=> steps % TIMER_PERIOD = 1
        /\ ticks = (steps + TIMER_PERIOD - 1) \div TIMER_PERIOD
        /\ IsFx07(opcode) => chip8.registers[OpX] = AfterTick(prev.delay_timer)

\* step 17 is an Fx07 that reads 0 from a delay timer that was 1 before the step
C20_Witness ==
    /\ Executed /\ IsFx07(opcode) /\ TickDue
    /\ steps = TIMER_PERIOD + 1 /\ ticks = 2
    /\ prev.delay_timer = 1 /\ chip8.delay_timer = 0
    /\ chip8.registers[OpX] = 0

\* the timer block ran in step 33 while Fx0A kept waiting for a key
C20_WitnessKeyWait ==
    /\ Executed /\ IsFx0A(opcode) /\ IsFx0A(opcode2) /\ TickDue
    /\ steps = 2 * TIMER_PERIOD + 1 /\ ticks = 3

====
